---- MODULE Spec2Model ----
(***************************************************************************)
(* Model of the Qubitekk CC1 coincidence-counter driver                     *)
(* (src/instruments/instruments/qubitekk/cc1.py).                           *)
(*                                                                          *)
(* Text is modelled as a sequence of one-character strings, so formatting   *)
(* and parsing are real conversions.  Magnitudes are fixed-point numbers    *)
(* counted in halves (5 stands for 2.5), which covers every integer and     *)
(* the fractional inputs x.5 that separate "<= 7" from "< 8" and "even"     *)
(* from "not odd".                                                          *)
(***************************************************************************)
EXTENDS Integers, Sequences, FiniteSets, TLC

VARIABLES
    cc1,      \* the CC1 object as __init__ left it (attributes and init error)
    dev,      \* instrument side: stored text of each setting
    counts,   \* instrument side: the counter of each channel name
    rx,       \* transport: reply lines written by the instrument, not yet read
    chans,    \* Channel objects handed out by CC1.channel, by external index
    setlog,   \* history: the value last sent by each quantity setter and stored
    last      \* record of the last completed call (operation, input, outcome)

vars == <<cc1, dev, counts, rx, chans, setlog, last>>

----------------------------------------------------------------------------
(* Bounds of the model *)

\* setter inputs for window and delay hold every integer of -1..MaxNs (in ns)
MaxNs == 16
\* the instrument's counters range over 0..MaxCount
MaxCount == 1
\* depth at which the interpreter stops a recursion (RuntimeError)
RecursionLimit == 3
\* replies that may sit unread in the transport before a new call is modelled
MaxPending == 2

----------------------------------------------------------------------------
(* Text *)

Digits == <<"0", "1", "2", "3", "4", "5", "6", "7", "8", "9">>

IsDigit(c) == \E i \in 1..10 : Digits[i] = c

DigitVal(c) == (CHOOSE i \in 1..10 : Digits[i] = c) - 1

IsSpace(c) == c \in {" ", "\n", "\t", "\r"}

RECURSIVE lstrip(_)
lstrip(s) ==
    IF s # <<>> /\ IsSpace(Head(s)) THEN lstrip(Tail(s)) ELSE s

RECURSIVE rstrip(_)
rstrip(s) ==
    IF s # <<>> /\ IsSpace(s[Len(s)]) THEN rstrip(SubSeq(s, 1, Len(s) - 1)) ELSE s

\* str.strip()
strip(s) == rstrip(lstrip(s))

StartsWith(s, p) == Len(s) >= Len(p) /\ SubSeq(s, 1, Len(p)) = p

DropPrefix(s, p) == SubSeq(s, Len(p) + 1, Len(s))

\* str(n) for an integer n >= 0
RECURSIVE NatToStr(_)
NatToStr(n) ==
    IF n < 10 THEN <<Digits[n + 1]>>
    ELSE NatToStr(n \div 10) \o <<Digits[(n % 10) + 1]>>

\* str(n) for an integer
IntToStr(n) == IF n < 0 THEN <<"-">> \o NatToStr(-n) ELSE NatToStr(n)

AllDigits(s) == s # <<>> /\ \A i \in 1..Len(s) : IsDigit(s[i])

RECURSIVE DigitsVal(_)
DigitsVal(s) ==
    IF s = <<>> THEN 0
    ELSE 10 * DigitsVal(SubSeq(s, 1, Len(s) - 1)) + DigitVal(s[Len(s)])

\* int(text): surrounding whitespace and a sign are allowed, nothing else
\* but decimal digits; anything else is a ValueError
ParseInt(text) ==
    LET t == strip(text)
        neg == t # <<>> /\ Head(t) = "-"
        pos == t # <<>> /\ Head(t) = "+"
        body == IF neg \/ pos THEN Tail(t) ELSE t
    IN  IF AllDigits(body)
        THEN [ok |-> TRUE, val |-> IF neg THEN -DigitsVal(body) ELSE DigitsVal(body)]
        ELSE [ok |-> FALSE, val |-> 0]

\* "{}".format(m) and str(m) for a float magnitude m, given in halves
FormatFloat(h) ==
    LET a == IF h < 0 THEN -h ELSE h
    IN  (IF h < 0 THEN <<"-">> ELSE <<>>)
        \o NatToStr(a \div 2) \o <<".">> \o (IF a % 2 = 0 THEN <<"0">> ELSE <<"5">>)

\* int(m) for a float magnitude m given in halves: truncation toward zero
TruncInt(h) == IF h < 0 THEN -((-h) \div 2) ELSE h \div 2

IndexOf(s, c) ==
    IF \E i \in 1..Len(s) : s[i] = c
    THEN CHOOSE i \in 1..Len(s) : s[i] = c /\ \A j \in 1..(i - 1) : s[j] # c
    ELSE 0

\* float(text) into halves: a sign, digits, and an optional fraction.  The
\* fixed-point domain holds the fractions .0 and .5 only.
ParseFloat(text) ==
    LET neg == text # <<>> /\ Head(text) = "-"
        body == IF neg THEN Tail(text) ELSE text
        dot == IndexOf(body, ".")
        ip == IF dot = 0 THEN body ELSE SubSeq(body, 1, dot - 1)
        fp == IF dot = 0 THEN <<"0">> ELSE SubSeq(body, dot + 1, Len(body))
        good == AllDigits(ip) /\ fp \in {<<"0">>, <<"5">>}
        mag == 2 * DigitsVal(ip) + (IF fp = <<"5">> THEN 1 ELSE 0)
    IN  IF good THEN [ok |-> TRUE, val |-> IF neg THEN -mag ELSE mag]
        ELSE [ok |-> FALSE, val |-> 0]

----------------------------------------------------------------------------
(* Quantities: a magnitude in halves and a unit of time *)

Units == {"ns", "us", "s", "ks"}

\* the power of ten of a unit, relative to the nanosecond
UnitExp(u) ==
    CASE u = "ns" -> 0
      [] u = "us" -> 3
      [] u = "s" -> 9
      [] u = "ks" -> 12

UnitText(u) ==
    CASE u = "ns" -> <<"n", "s">>
      [] u = "us" -> <<"u", "s">>
      [] u = "s" -> <<"s">>
      [] u = "ks" -> <<"k", "s">>

RECURSIVE Pow10(_)
Pow10(n) == IF n = 0 THEN 1 ELSE 10 * Pow10(n - 1)

\* assume_units(value, units): a bare number is taken to be in `units`
assume_units(v, u) ==
    IF v.unit = "bare" THEN [mag |-> v.mag, unit |-> u] ELSE v

\* Quantity.rescale(units).  The division is exact on every input of the model.
rescale(q, u) ==
    LET d == UnitExp(q.unit) - UnitExp(u)
    IN  [mag |-> IF d >= 0 THEN q.mag * Pow10(d) ELSE q.mag \div Pow10(-d),
         unit |-> u]

\* equality of two quantities after unit normalization
QuantityEq(a, b) ==
    LET d == UnitExp(a.unit) - UnitExp(b.unit)
    IN  IF d >= 0
        THEN b.mag % Pow10(d) = 0 /\ b.mag \div Pow10(d) = a.mag
        ELSE a.mag % Pow10(-d) = 0 /\ a.mag \div Pow10(-d) = b.mag

IsNumChar(c) == IsDigit(c) \/ c \in {".", "-", "+"}

RECURSIVE NumPrefixLen(_)
NumPrefixLen(s) ==
    IF s # <<>> /\ IsNumChar(Head(s)) THEN 1 + NumPrefixLen(Tail(s)) ELSE 0

\* split_unit_str(text, default) followed by pq.Quantity(magnitude, unit):
\* the numeric part, then an optional unit token, else the default unit
split_unit_str(text, default) ==
    LET t == strip(text)
        n == NumPrefixLen(t)
        num == ParseFloat(SubSeq(t, 1, n))
        rest == strip(SubSeq(t, n + 1, Len(t)))
        known == \E u \in Units : UnitText(u) = rest
        unit == IF rest = <<>> THEN default
                ELSE IF known THEN CHOOSE u \in Units : UnitText(u) = rest
                ELSE default
    IN  IF num.ok /\ (rest = <<>> \/ known)
        THEN [ok |-> TRUE, mag |-> num.val, unit |-> unit]
        ELSE [ok |-> FALSE, mag |-> 0, unit |-> default]

----------------------------------------------------------------------------
(* The instrument behind the transport: it stores the value of each set     *)
(* command and echoes it on the matching query.                             *)

Keys == {"WIND", "DELA", "DWEL", "GATE", "COUN", "TRIG"}

KeyText(k) ==
    CASE k = "WIND" -> <<"W", "I", "N", "D">>
      [] k = "DELA" -> <<"D", "E", "L", "A">>
      [] k = "DWEL" -> <<"D", "W", "E", "L">>
      [] k = "GATE" -> <<"G", "A", "T", "E">>
      [] k = "COUN" -> <<"C", "O", "U", "N">>
      [] k = "TRIG" -> <<"T", "R", "I", "G">>

ChanNames == {<<"C", "1">>, <<"C", "2">>, <<"C", "0">>}

UnknownCommand ==
    <<"U", "n", "k", "n", "o", "w", "n", " ", "c", "o", "m", "m", "a", "n", "d">>

QueryText(k) == KeyText(k) \o <<"?">>

SetPrefix(k) == <<":">> \o KeyText(k) \o <<" ">>

OnText(k) == <<":">> \o KeyText(k) \o <<":", "O", "N">>

OffText(k) == <<":">> \o KeyText(k) \o <<":", "O", "F", "F">>

CountQuery(name) == <<"C", "O", "U", "N", ":">> \o name \o <<"?">>

ClearText == <<"C", "L", "E", "A">>

\* what the instrument does with one command line: its new state and its reply
DevHandle(d, c, cmd) ==
    LET same == [dev |-> d, counts |-> c]
    IN  IF \E k \in Keys : cmd = QueryText(k)
        THEN same @@ [reply |-> d[CHOOSE k \in Keys : cmd = QueryText(k)]]
        ELSE IF \E k \in Keys : StartsWith(cmd, SetPrefix(k))
        THEN LET k == CHOOSE x \in Keys : StartsWith(cmd, SetPrefix(x))
             IN  [dev |-> [d EXCEPT ![k] = DropPrefix(cmd, SetPrefix(k))],
                  counts |-> c, reply |-> <<>>]
        ELSE IF \E k \in {"GATE", "COUN"} : cmd = OnText(k)
        THEN [dev |-> [d EXCEPT ![CHOOSE k \in {"GATE", "COUN"} : cmd = OnText(k)] = <<"1">>],
              counts |-> c, reply |-> <<>>]
        ELSE IF \E k \in {"GATE", "COUN"} : cmd = OffText(k)
        THEN [dev |-> [d EXCEPT ![CHOOSE k \in {"GATE", "COUN"} : cmd = OffText(k)] = <<"0">>],
              counts |-> c, reply |-> <<>>]
        ELSE IF \E n \in ChanNames : cmd = CountQuery(n)
        THEN same @@ [reply |-> IntToStr(c[CHOOSE n \in ChanNames : cmd = CountQuery(n)])]
        ELSE IF cmd = ClearText
        THEN [dev |-> d, counts |-> [n \in ChanNames |-> 0], reply |-> <<>>]
        ELSE same @@ [reply |-> UnknownCommand]

\* The mock transport either lets the instrument answer (Echo) or answers every
\* command of the call with one scripted line, whatever the command.
Echo == [forced |-> FALSE, text |-> <<>>]

Scripted(text) == [forced |-> TRUE, text |-> text]

ScriptedReplies ==
    { UnknownCommand,
      <<" ">> \o UnknownCommand \o <<"\n">>,
      UnknownCommand \o <<"!">>,
      <<"2">>,
      <<"x">> }

Envs == {Echo} \cup {Scripted(r) : r \in ScriptedReplies}

----------------------------------------------------------------------------
(* Transport and the generic command/query engine.  A call works on a       *)
(* record t: the instrument's state, the unread replies, and the commands   *)
(* written (tx) and reply lines read (rd) by this call.                     *)

\* x is evaluated once and F applied to its value
Bind(x, F(_)) == CHOOSE y \in {F(v) : v \in {x}} : TRUE

\* Transport.write: the instrument receives the line and queues its reply
Transport_write(t, cmd, env) ==
    Bind(IF env.forced
         THEN [dev |-> t.dev, counts |-> t.counts, reply |-> env.text]
         ELSE DevHandle(t.dev, t.counts, cmd),
         LAMBDA h :
            [dev |-> h.dev, counts |-> h.counts,
             rx |-> Append(t.rx, [text |-> h.reply, cmd |-> cmd]),
             tx |-> Append(t.tx, cmd), rd |-> t.rd])

\* Transport.read_until: the oldest unread reply line, or a timeout
Transport_read(t) ==
    IF t.rx = <<>>
    THEN [t |-> t, err |-> "TransportError", resp |-> <<>>]
    ELSE [t |-> [t EXCEPT !.rx = Tail(t.rx), !.rd = Append(t.rd, Head(t.rx))],
          err |-> "none", resp |-> Head(t.rx).text]

\* the base class's sendcmd: send only
Instrument_sendcmd(t, cmd, env) ==
    [t |-> Transport_write(t, cmd, env), err |-> "none", resp |-> <<>>]

\* the base class's query: send, then read one line
Instrument_query(t, cmd, env) ==
    Bind(Transport_write(t, cmd, env), LAMBDA w : Transport_read(w))

----------------------------------------------------------------------------
(* class CC1 *)

Nothing == [kind |-> "none"]

Raise(t, e) == [t |-> t, err |-> e, val |-> Nothing]

Return(t, v) == [t |-> t, err |-> "none", val |-> v]

\* variant of CC1.sendcmd that sends through the base class's sendcmd and
\* reads no reply
CC1_sendcmd_noread(t, cmd, env) ==
    Bind(Instrument_sendcmd(t, cmd, env), LAMBDA r : Return(r.t, Nothing))

\* CC1.sendcmd: the base class's query, so that the reply can be inspected
CC1_sendcmd(t, cmd, env) ==
    Bind(Instrument_query(t, cmd, env),
         LAMBDA r :
            IF r.err # "none" THEN Raise(r.t, r.err)
            ELSE IF UnknownCommand = strip(r.resp) THEN Raise(r.t, "IOError")
            ELSE Return(r.t, Nothing))

\* variant of CC1.query that compares the reply untrimmed
CC1_query_nostrip(t, cmd, env) ==
    Bind(Instrument_query(t, cmd, env),
         LAMBDA r :
            IF r.err # "none" THEN Raise(r.t, r.err)
            ELSE IF UnknownCommand = r.resp THEN Raise(r.t, "IOError")
            ELSE Return(r.t, [kind |-> "text", text |-> r.resp]))

\* CC1.query
CC1_query(t, cmd, env) ==
    Bind(Instrument_query(t, cmd, env),
         LAMBDA r :
            IF r.err # "none" THEN Raise(r.t, r.err)
            ELSE IF UnknownCommand = strip(r.resp) THEN Raise(r.t, "IOError")
            ELSE Return(r.t, [kind |-> "text", text |-> r.resp]))

\* CC1.Channel.__CHANNEL_NAMES
CHANNEL_NAMES == (1 :> <<"C", "1">>) @@ (2 :> <<"C", "2">>) @@ (3 :> <<"C", "0">>)

\* variant of Channel.__init__ that keeps the external index as it is
Channel__init__zero_based(idx) ==
    IF idx \in DOMAIN CHANNEL_NAMES
    THEN [err |-> "none", obj |-> [idx |-> idx, chan |-> CHANNEL_NAMES[idx], count |-> 0]]
    ELSE [err |-> "KeyError", obj |-> [idx |-> idx, chan |-> <<>>, count |-> 0]]

\* CC1.Channel.__init__(cc1, idx): the Channel object, or the KeyError of the
\* name lookup
Channel__init__(idx) ==
    IF idx + 1 \in DOMAIN CHANNEL_NAMES
    THEN [err |-> "none",
          obj |-> [idx |-> idx + 1, chan |-> CHANNEL_NAMES[idx + 1], count |-> 0]]
    ELSE [err |-> "KeyError", obj |-> [idx |-> idx + 1, chan |-> <<>>, count |-> 0]]

\* the attribute assignments of CC1.__init__, in order
InitChannels == <<[attr |-> "channel1", idx |-> 1],
                  [attr |-> "channel2", idx |-> 2],
                  [attr |-> "channelc", idx |-> 3]>>

RECURSIVE InitFrom(_, _)
InitFrom(self, k) ==
    IF k > Len(InitChannels) THEN self
    ELSE Bind(Channel__init__(InitChannels[k].idx),
              LAMBDA c :
                 IF c.err # "none"
                 THEN [self EXCEPT !.err = c.err, !.built = Append(self.built, c.obj.idx)]
                 ELSE InitFrom([self EXCEPT
                                    !.attrs = self.attrs @@ (InitChannels[k].attr :> c.obj),
                                    !.built = Append(self.built, c.obj.idx)],
                               k + 1))

\* CC1.__init__: `built` lists the internal index of every Channel construction
\* attempted, `attrs` the channel attributes that were assigned
CC1__init__ ==
    InitFrom([terminator |-> "\n", end_terminator |-> "\n", channel_count |-> 3,
              attrs |-> <<>>, built |-> <<>>, err |-> "none"], 1)

\* xrange(self.channel_count)
ChannelRange(self) == 0..(self.channel_count - 1)

\* CC1.channel[i] through the indexable accessor: IndexError outside the range,
\* else the Channel cached for i, constructed on first access
ProxyList_getitem(self, cache, i) ==
    IF i \notin ChannelRange(self) THEN [err |-> "IndexError", cache |-> cache]
    ELSE IF i \in DOMAIN cache THEN [err |-> "none", cache |-> cache]
    ELSE Bind(Channel__init__(i),
              LAMBDA c :
                 IF c.err # "none" THEN [err |-> c.err, cache |-> cache]
                 ELSE [err |-> "none", cache |-> cache @@ (i :> c.obj)])

\* CC1.Channel.count: the getter calls itself on every path, so the call ends
\* only with an error: the query's, or the interpreter's recursion limit
RECURSIVE Channel_count(_, _, _, _)
Channel_count(t, ch, env, depth) ==
    IF depth > RecursionLimit THEN Raise(t, "RuntimeError") @@ [ch |-> ch]
    ELSE Bind(CC1_query(t, CountQuery(ch.chan), env),
              LAMBDA q :
                 IF q.err # "none" THEN Raise(q.t, q.err) @@ [ch |-> ch]
                 ELSE Bind(ParseInt(q.val.text),
                           LAMBDA p :
                              IF p.ok
                              THEN Channel_count(q.t, [ch EXCEPT !.count = p.val],
                                                 env, depth + 1)
                              ELSE Bind(Channel_count(q.t, ch, env, depth + 1),
                                        LAMBDA r :
                                           IF r.err # "none" THEN r
                                           ELSE Return(r.t, Nothing)
                                                @@ [ch |-> [r.ch EXCEPT !.count = r.val]])))

\* CC1.TriggerMode
TriggerMode == [continuous |-> 0, start_stop |-> 0]

ModeNames == DOMAIN TriggerMode

\* pq.Quantity(*split_unit_str(response, "s")) in the getters
QuantityOf(q, default) ==
    IF q.err # "none" THEN q
    ELSE Bind(split_unit_str(q.val.text, default),
              LAMBDA p :
                 IF ~p.ok THEN Raise(q.t, "ValueError")
                 ELSE Return(q.t, [kind |-> "quantity", mag |-> p.mag, unit |-> p.unit]))

\* CC1.window (getter)
window_get(t, env) ==
    Bind(CC1_query(t, QueryText("DWEL"), env), LAMBDA q : QuantityOf(q, "s"))

\* variant of the window setter whose upper bound is exclusive
window_set_exclusive(t, new_val, env) ==
    Bind(rescale(assume_units(new_val, "ns"), "ns").mag,
         LAMBDA new_val_mag :
            IF new_val_mag < 0 THEN Raise(t, "ValueError")
            ELSE IF new_val_mag >= 2 * 7 THEN Raise(t, "ValueError")
            ELSE CC1_sendcmd(t, SetPrefix("WIND") \o FormatFloat(new_val_mag), env))

\* CC1.window (setter)
window_set(t, new_val, env) ==
    Bind(rescale(assume_units(new_val, "ns"), "ns").mag,
         LAMBDA new_val_mag :
            IF new_val_mag < 0 THEN Raise(t, "ValueError")
            ELSE IF new_val_mag > 2 * 7 THEN Raise(t, "ValueError")
            ELSE CC1_sendcmd(t, SetPrefix("WIND") \o FormatFloat(new_val_mag), env))

\* CC1.delay (getter): int(response) * pq.ns
delay_get(t, env) ==
    Bind(CC1_query(t, QueryText("DELA"), env),
         LAMBDA q :
            IF q.err # "none" THEN q
            ELSE Bind(ParseInt(q.val.text),
                      LAMBDA p :
                         IF ~p.ok THEN Raise(q.t, "ValueError")
                         ELSE Return(q.t, [kind |-> "quantity", mag |-> 2 * p.val,
                                           unit |-> "ns"])))

\* CC1.delay (setter); x % 2 != 0 on a magnitude in halves is h % 4 # 0
delay_set(t, new_val, env) ==
    Bind(rescale(assume_units(new_val, "ns"), "ns"),
         LAMBDA v :
            IF v.mag < 0 \/ v.mag > 2 * 14 THEN Raise(t, "ValueError")
            ELSE IF v.mag % 4 # 0 THEN Raise(t, "ValueError")
            ELSE CC1_sendcmd(t, SetPrefix("DELA") \o IntToStr(TruncInt(v.mag)), env))

\* CC1.dwell_time (getter)
dwell_time_get(t, env) ==
    Bind(CC1_query(t, QueryText("DWEL"), env), LAMBDA q : QuantityOf(q, "s"))

\* CC1.dwell_time (setter)
dwell_time_set(t, new_val, env) ==
    Bind(rescale(assume_units(new_val, "s"), "s").mag,
         LAMBDA new_val_mag :
            IF new_val_mag < 0 THEN Raise(t, "ValueError")
            ELSE CC1_sendcmd(t, SetPrefix("DWEL") \o FormatFloat(new_val_mag), env))

\* int(response), then True if response is 1 else False
BoolOf(q) ==
    IF q.err # "none" THEN q
    ELSE Bind(ParseInt(q.val.text),
              LAMBDA p :
                 IF ~p.ok THEN Raise(q.t, "ValueError")
                 ELSE Return(q.t, [kind |-> "bool", b |-> (p.val = 1)]))

\* CC1.gate_enable (getter)
gate_enable_get(t, env) ==
    Bind(CC1_query(t, QueryText("GATE"), env), LAMBDA q : BoolOf(q))

\* variant of the gate_enable setter that coerces any integer with bool()
gate_enable_set_coerce(t, new_val, env) ==
    IF new_val.kind \in {"int", "bool"}
    THEN IF new_val.n = 0 THEN CC1_sendcmd(t, OffText("GATE"), env)
         ELSE CC1_sendcmd(t, OnText("GATE"), env)
    ELSE Raise(t, "TypeError")

\* CC1.gate_enable (setter).  A Python bool is an int.
gate_enable_set(t, new_val, env) ==
    IF new_val.kind \in {"int", "bool"}
    THEN IF new_val.n # 0 /\ new_val.n # 1 THEN Raise(t, "ValueError")
         ELSE IF new_val.n = 0 THEN CC1_sendcmd(t, OffText("GATE"), env)
         ELSE CC1_sendcmd(t, OnText("GATE"), env)
    ELSE Raise(t, "TypeError")

\* CC1.count_enable (getter)
count_enable_get(t, env) ==
    Bind(CC1_query(t, QueryText("COUN"), env), LAMBDA q : BoolOf(q))

\* CC1.count_enable (setter)
count_enable_set(t, new_val, env) ==
    IF new_val.kind \in {"int", "bool"}
    THEN IF new_val.n # 0 /\ new_val.n # 1 THEN Raise(t, "ValueError")
         ELSE IF new_val.n = 0 THEN CC1_sendcmd(t, OffText("COUN"), env)
         ELSE CC1_sendcmd(t, OnText("COUN"), env)
    ELSE Raise(t, "TypeError")

\* the members of TriggerMode that carry the code, as the lookup sees them
MembersOf(code) == {m \in ModeNames : TriggerMode[m] = code}

\* CC1.trigger (getter): TriggerMode[int(response)].  Where two members share a
\* code the lookup gives one of them, so the getter has a set of outcomes.
trigger_get(t, env) ==
    Bind(CC1_query(t, QueryText("TRIG"), env),
         LAMBDA q :
            IF q.err # "none" THEN {q}
            ELSE Bind(ParseInt(q.val.text),
                      LAMBDA p :
                         IF ~p.ok THEN {Raise(q.t, "ValueError")}
                         ELSE IF MembersOf(p.val) = {} THEN {Raise(q.t, "LookupError")}
                         ELSE {Return(q.t, [kind |-> "mode", name |-> m]) :
                                  m \in MembersOf(p.val)}))

\* CC1.trigger (setter): `new_setting is not self.TriggerMode` lets only the
\* enumeration class itself pass, and int() of the class is a TypeError
trigger_set(t, new_setting, env) ==
    IF new_setting.kind # "class" THEN Raise(t, "TypeError")
    ELSE IF new_setting.kind \notin {"mode", "int", "bool"} THEN Raise(t, "TypeError")
    ELSE CC1_sendcmd(t, SetPrefix("TRIG") \o IntToStr(TriggerMode[new_setting.name]), env)

\* CC1.clear_counts
clear_counts(t, env) == CC1_sendcmd(t, ClearText, env)

----------------------------------------------------------------------------
(* Inputs *)

Bare(h) == [mag |-> h, unit |-> "bare"]

\* bare integers of ns, the fractions 1.5, 7.5 and 14.5, and values with a unit
NsInputs ==
    {Bare(2 * n) : n \in -1..MaxNs}
    \cup {Bare(3), Bare(15), Bare(29)}
    \cup {[mag |-> 0, unit |-> "us"], [mag |-> 1, unit |-> "us"]}

\* -0.5, 0, 2.5 (bare, in seconds), 2.5 s and 0.5 ks
DwellInputs ==
    {Bare(-1), Bare(0), Bare(5), [mag |-> 5, unit |-> "s"], [mag |-> 1, unit |-> "ks"]}

\* booleans, integers, and values that are neither
EnableInputs ==
    {[kind |-> "bool", n |-> 0], [kind |-> "bool", n |-> 1]}
    \cup {[kind |-> "int", n |-> n] : n \in -1..2}
    \cup {[kind |-> "str", n |-> 0], [kind |-> "float", n |-> 1]}

\* the members of TriggerMode, the class TriggerMode itself, and other values
TriggerInputs ==
    {[kind |-> "mode", name |-> m] : m \in ModeNames}
    \cup {[kind |-> "class", name |-> "TriggerMode"],
          [kind |-> "int", name |-> "0"], [kind |-> "str", name |-> "continuous"]}

\* a few inputs per setter, on both sides of every validation, for the runs
\* that vary the instrument's reply as well
NsProbe == {Bare(-2), Bare(3), Bare(4), Bare(14), Bare(16), Bare(30)}

DwellProbe == {Bare(-1), Bare(5)}

EnableProbe == {[kind |-> "bool", n |-> 1], [kind |-> "int", n |-> 0],
                [kind |-> "int", n |-> 2], [kind |-> "str", n |-> 0]}

\* command texts for direct use of query and sendcmd: queries, set commands
\* and a text the instrument does not know
CmdProbe ==
    { QueryText("DWEL"), QueryText("GATE"), ClearText, <<"F", "O", "O">>,
      SetPrefix("DELA") \o <<"6">>, OnText("GATE") }

Quantities == {"window", "delay", "dwell_time"}

NotSet == [set |-> FALSE, mag |-> 0, unit |-> "bare"]

----------------------------------------------------------------------------
(* State machine *)

Init ==
    /\ cc1 = CC1__init__
    /\ dev = [k \in Keys |-> <<"0">>]
    /\ counts = [n \in ChanNames |-> 0]
    /\ rx = <<>>
    /\ chans = <<>>
    /\ setlog = [p \in Quantities |-> NotSet]
    /\ last = [op |-> "__init__", arg |-> Nothing, env |-> Echo, err |-> CC1__init__.err,
               val |-> Nothing, tx |-> <<>>, rd |-> <<>>]

\* the state a call starts from
T0 == [dev |-> dev, counts |-> counts, rx |-> rx, tx |-> <<>>, rd |-> <<>>]

\* a call of the single caller completes: r is the method's outcome
Call(op, arg, env, r) ==
    /\ Len(rx) <= MaxPending
    /\ dev' = r.t.dev
    /\ counts' = r.t.counts
    /\ rx' = r.t.rx
    /\ last' = [op |-> op, arg |-> arg, env |-> IF r.t.tx = <<>> THEN Echo ELSE env,
                err |-> r.err, val |-> r.val, tx |-> r.t.tx, rd |-> r.t.rd]

\* a quantity setter's command was taken in by the instrument
Logged(p, v, env, r) ==
    setlog' = IF r.err = "none" /\ ~env.forced
              THEN [setlog EXCEPT ![p] = [set |-> TRUE, mag |-> v.mag, unit |-> v.unit]]
              ELSE setlog

SetWindow(S, E) ==
    \E v \in S, env \in E :
        \E r \in {window_set(T0, v, env)} :
            /\ Call("window.set", v, env, r)
            /\ Logged("window", v, env, r)
            /\ UNCHANGED <<cc1, chans>>

GetWindow(E) ==
    \E env \in E :
        \E r \in {window_get(T0, env)} :
            /\ Call("window.get", Nothing, env, r)
            /\ UNCHANGED <<cc1, chans, setlog>>

SetDelay(S, E) ==
    \E v \in S, env \in E :
        \E r \in {delay_set(T0, v, env)} :
            /\ Call("delay.set", v, env, r)
            /\ Logged("delay", v, env, r)
            /\ UNCHANGED <<cc1, chans>>

GetDelay(E) ==
    \E env \in E :
        \E r \in {delay_get(T0, env)} :
            /\ Call("delay.get", Nothing, env, r)
            /\ UNCHANGED <<cc1, chans, setlog>>

SetDwellTime(S, E) ==
    \E v \in S, env \in E :
        \E r \in {dwell_time_set(T0, v, env)} :
            /\ Call("dwell_time.set", v, env, r)
            /\ Logged("dwell_time", v, env, r)
            /\ UNCHANGED <<cc1, chans>>

GetDwellTime(E) ==
    \E env \in E :
        \E r \in {dwell_time_get(T0, env)} :
            /\ Call("dwell_time.get", Nothing, env, r)
            /\ UNCHANGED <<cc1, chans, setlog>>

SetGateEnable(S, E) ==
    \E v \in S, env \in E :
        \E r \in {gate_enable_set(T0, v, env)} :
            /\ Call("gate_enable.set", v, env, r)
            /\ UNCHANGED <<cc1, chans, setlog>>

GetGateEnable(E) ==
    \E env \in E :
        \E r \in {gate_enable_get(T0, env)} :
            /\ Call("gate_enable.get", Nothing, env, r)
            /\ UNCHANGED <<cc1, chans, setlog>>

SetCountEnable(S, E) ==
    \E v \in S, env \in E :
        \E r \in {count_enable_set(T0, v, env)} :
            /\ Call("count_enable.set", v, env, r)
            /\ UNCHANGED <<cc1, chans, setlog>>

GetCountEnable(E) ==
    \E env \in E :
        \E r \in {count_enable_get(T0, env)} :
            /\ Call("count_enable.get", Nothing, env, r)
            /\ UNCHANGED <<cc1, chans, setlog>>

SetTrigger(E) ==
    \E v \in TriggerInputs, env \in E :
        \E r \in {trigger_set(T0, v, env)} :
            /\ Call("trigger.set", v, env, r)
            /\ UNCHANGED <<cc1, chans, setlog>>

GetTrigger(E) ==
    \E env \in E :
        \E r \in trigger_get(T0, env) :
            /\ Call("trigger.get", Nothing, env, r)
            /\ UNCHANGED <<cc1, chans, setlog>>

ClearCounts(E) ==
    \E env \in E :
        \E r \in {clear_counts(T0, env)} :
            /\ Call("clear_counts", Nothing, env, r)
            /\ UNCHANGED <<cc1, chans, setlog>>

\* the caller indexes CC1.channel
GetChannel ==
    \E i \in -1..cc1.channel_count :
        \E g \in {ProxyList_getitem(cc1, chans, i)} :
            /\ Len(rx) <= MaxPending
            /\ chans' = g.cache
            /\ last' = [op |-> "channel", arg |-> [kind |-> "int", n |-> i], env |-> Echo,
                        err |-> g.err, val |-> Nothing, tx |-> <<>>, rd |-> <<>>]
            /\ UNCHANGED <<cc1, dev, counts, rx, setlog>>

\* the caller reads .count of a Channel it holds
GetCount(E) ==
    \E i \in DOMAIN chans, env \in E :
        \E r \in {Channel_count(T0, chans[i], env, 1)} :
            /\ Call("count", [kind |-> "int", n |-> i], env, r)
            /\ chans' = [chans EXCEPT ![i] = r.ch]
            /\ UNCHANGED <<cc1, setlog>>

\* the instrument registers a detection on one of its counters
Detect ==
    \E n \in ChanNames :
        /\ counts[n] < MaxCount
        /\ counts' = [counts EXCEPT ![n] = counts[n] + 1]
        /\ UNCHANGED <<cc1, dev, rx, chans, setlog, last>>

\* the caller uses CC1.query directly
Query(E) ==
    \E cmd \in CmdProbe, env \in E :
        \E r \in {CC1_query(T0, cmd, env)} :
            /\ Call("query", [kind |-> "text", text |-> cmd], env, r)
            /\ UNCHANGED <<cc1, chans, setlog>>

\* the caller uses CC1.sendcmd directly
SendCmd(E) ==
    \E cmd \in CmdProbe, env \in E :
        \E r \in {CC1_sendcmd(T0, cmd, env)} :
            /\ Call("sendcmd", [kind |-> "text", text |-> cmd], env, r)
            /\ UNCHANGED <<cc1, chans, setlog>>

\* The methods below are modelled on the object as CC1.__init__ left it: none
\* of them reads the attributes channel1, channel2 or channelc.

\* the quantity properties, over their whole input ranges, against an
\* instrument that answers each command itself
NextEcho ==
    \/ SetWindow(NsInputs, {Echo})
    \/ GetWindow({Echo})
    \/ SetDelay(NsInputs, {Echo})
    \/ GetDelay({Echo})
    \/ SetDwellTime(DwellInputs, {Echo})
    \/ GetDwellTime({Echo})

Spec == Init /\ [][NextEcho]_vars

\* every property and clear_counts against a transport whose replies may be
\* scripted
NextIO ==
    \/ SetWindow(NsProbe, Envs)
    \/ GetWindow(Envs)
    \/ SetDelay(NsProbe, Envs)
    \/ GetDelay(Envs)
    \/ SetDwellTime(DwellProbe, Envs)
    \/ GetDwellTime(Envs)
    \/ SetGateEnable(EnableProbe, Envs)
    \/ GetGateEnable(Envs)
    \/ SetCountEnable(EnableProbe, Envs)
    \/ GetCountEnable(Envs)
    \/ SetTrigger(Envs)
    \/ GetTrigger(Envs)
    \/ ClearCounts(Envs)

SpecIO == Init /\ [][NextIO]_vars

\* the command/query engine used directly, and the getters built on it
NextRaw ==
    \/ Query(Envs)
    \/ SendCmd(Envs)
    \/ GetWindow(Envs)
    \/ GetDelay(Envs)
    \/ GetGateEnable(Envs)
    \/ GetTrigger(Envs)

SpecRaw == Init /\ [][NextRaw]_vars

\* the channels
NextChan ==
    \/ GetChannel
    \/ GetCount(Envs)
    \/ ClearCounts(Envs)
    \/ Detect

SpecChan == Init /\ [][NextChan]_vars

----------------------------------------------------------------------------
(* Properties *)

Setters == {"window.set", "delay.set", "dwell_time.set", "gate_enable.set",
            "count_enable.set", "trigger.set"}

Getters == {"window.get", "delay.get", "dwell_time.get", "gate_enable.get",
            "count_enable.get", "trigger.get"}

\* the magnitude of a window or delay input in halves of a ns
InNs(v) == IF v.unit = "bare" THEN v.mag ELSE v.mag * Pow10(UnitExp(v.unit))

\* the magnitude of a dwell_time input in halves of a s
InS(v) == IF v.unit = "bare" THEN v.mag ELSE v.mag * Pow10(UnitExp(v.unit) - UnitExp("s"))

\* the values each setting declares invalid: window outside 0..7 ns, delay
\* outside 0..14 ns or not a multiple of 2 ns, a negative dwell time, anything
\* but a boolean or 0/1 for a boolean setting, anything but a trigger mode
Invalid(op, v) ==
    CASE op = "window.set" -> InNs(v) < 0 \/ InNs(v) > 14
      [] op = "delay.set" -> InNs(v) < 0 \/ InNs(v) > 28 \/ InNs(v) % 4 # 0
      [] op = "dwell_time.set" -> InS(v) < 0
      [] op \in {"gate_enable.set", "count_enable.set"} ->
            v.kind \notin {"int", "bool"} \/ v.n \notin {0, 1}
      [] op = "trigger.set" -> v.kind # "mode"

\* C1: a setter given a value that fails its validation raises an error and
\* writes no command; so every command a setter wrote encodes a value that
\* passed the validation.
C1_InvalidValueWritesNothing ==
    last.op \in Setters =>
        /\ Invalid(last.op, last.arg) => last.err # "none" /\ last.tx = <<>>
        /\ last.tx # <<>> => ~Invalid(last.op, last.arg)

\* an integer other than 0/1 was refused after earlier commands were written
C1_Witness ==
    /\ last.op = "gate_enable.set"
    /\ last.arg = [kind |-> "int", n |-> 2]
    /\ last.err = "ValueError"
    /\ last.tx = <<>>
    /\ dev["DELA"] = <<"8">>
    /\ dev["GATE"] = <<"1">>

\* the reply lines that equal the sentinel once trimmed
SentinelLines == {UnknownCommand, <<" ">> \o UnknownCommand \o <<"\n">>}

\* C2: when the reply read is 'Unknown command' after trimming, query and
\* sendcmd raise and return no payload, so no getter returns a value made
\* from it; on any other reply query returns the reply unchanged.
C2_UnknownCommandRaises ==
    last.rd # <<>> =>
        LET line == last.rd[Len(last.rd)].text
        IN  /\ line \in SentinelLines => last.err = "IOError" /\ last.val = Nothing
            /\ last.op = "query" /\ line \notin SentinelLines =>
                    last.err = "none" /\ last.val = [kind |-> "text", text |-> line]
            /\ last.op = "sendcmd" /\ line \notin SentinelLines => last.err = "none"

\* a getter met the sentinel padded with whitespace, after a direct query
\* had returned another reply
C2_Witness ==
    /\ last.op = "gate_enable.get"
    /\ last.rd = <<[text |-> <<" ">> \o UnknownCommand \o <<"\n">>, cmd |-> QueryText("GATE")]>>
    /\ last.err = "IOError"
    /\ dev["DELA"] = <<"6">>

\* C8: the window setter writes a command exactly for 0 <= m <= 7 ns and the
\* delay setter exactly for m in {0, 2, ..., 14} ns; an accepted value gives
\* exactly one command, prefix + ' ' + the value encoded.
C8_InclusiveRangeExactStep ==
    /\ last.op = "window.set" =>
        /\ last.tx # <<>> <=> (0 <= InNs(last.arg) /\ InNs(last.arg) <= 14)
        /\ last.tx # <<>> =>
            /\ Len(last.tx) = 1
            /\ StartsWith(last.tx[1], <<":", "W", "I", "N", "D", " ">>)
            /\ ParseFloat(SubSeq(last.tx[1], 7, Len(last.tx[1])))
                    = [ok |-> TRUE, val |-> InNs(last.arg)]
    /\ last.op = "delay.set" =>
        /\ last.tx # <<>> <=> InNs(last.arg) \in {4 * k : k \in 0..7}
        /\ last.tx # <<>> =>
            /\ Len(last.tx) = 1
            /\ StartsWith(last.tx[1], <<":", "D", "E", "L", "A", " ">>)
            /\ ParseInt(SubSeq(last.tx[1], 7, Len(last.tx[1])))
                    = [ok |-> TRUE, val |-> InNs(last.arg) \div 2]

\* 14 ns was accepted by the delay setter while the window stood at 7 ns
C8_Witness ==
    /\ last.op = "delay.set"
    /\ last.arg = Bare(28)
    /\ last.tx = << <<":", "D", "E", "L", "A", " ", "1", "4">> >>
    /\ dev["WIND"] = <<"7", ".", "0">>

\* C9: every command written is followed by the read of one reply line
\* before the call returns: the lines read by a call answer, in order, the
\* commands it wrote, and no reply is left unread for a later call.
C9_OneReplyPerCommand ==
    /\ rx = <<>>
    /\ last.err # "TransportError"
    /\ Len(last.rd) = Len(last.tx)
    /\ \A i \in 1..Len(last.tx) : last.rd[i].cmd = last.tx[i]

\* a getter read the reply to its own query after two setters and
\* clear_counts had written commands
C9_Witness ==
    /\ last.op = "delay.get"
    /\ last.tx = <<QueryText("DELA")>>
    /\ last.rd = <<[text |-> <<"2">>, cmd |-> QueryText("DELA")]>>
    /\ last.val = [kind |-> "quantity", mag |-> 4, unit |-> "ns"]
    /\ dev["GATE"] = <<"1">>
    /\ setlog["delay"] = [set |-> TRUE, mag |-> 4, unit |-> "bare"]

\* the value a quantity setter was given, in the setting's own unit
SetValue(p) ==
    [mag |-> setlog[p].mag,
     unit |-> IF setlog[p].unit # "bare" THEN setlog[p].unit
              ELSE IF p = "dwell_time" THEN "s" ELSE "ns"]

RoundTrip(p, op) ==
    last.op = op /\ setlog[p].set =>
        /\ last.err = "none"
        /\ last.val.kind = "quantity"
        /\ QuantityEq([mag |-> last.val.mag, unit |-> last.val.unit], SetValue(p))

\* C3: against an instrument that echoes what was set, getting window, delay
\* or dwell_time after setting it returns the value set, up to the unit.
C3_SetThenGetRoundTrip ==
    /\ RoundTrip("window", "window.get")
    /\ RoundTrip("delay", "delay.get")
    /\ RoundTrip("dwell_time", "dwell_time.get")

\* the part of C3 the code keeps: delay and dwell_time
C3_DelayAndDwellRoundTrip ==
    /\ RoundTrip("delay", "delay.get")
    /\ RoundTrip("dwell_time", "dwell_time.get")

\* the names the channels are declared to have, by external index
DeclaredName(i) ==
    CASE i = 0 -> <<"C", "1">>
      [] i = 1 -> <<"C", "2">>
      [] i = 2 -> <<"C", "0">>

\* C4: when the reply is a decimal integer n, reading Channel.count returns n
\* after a single query 'COUN:<name>?' with the channel's name.
C4_CountReadsOnce ==
    last.op = "count" /\ ~last.env.forced =>
        /\ last.err = "none"
        /\ last.val = [kind |-> "int", n |-> counts[chans[last.arg.n].chan]]
        /\ last.tx = <<CountQuery(chans[last.arg.n].chan)>>

\* C5: setting trigger to a declared mode raises no error and sends exactly
\* one command ':TRIG <code>'; any other value raises a TypeError.
C5_TriggerSetterAcceptsModes ==
    last.op = "trigger.set" =>
        /\ last.arg.kind = "mode" =>
            /\ last.err # "TypeError"
            /\ last.tx = << <<":", "T", "R", "I", "G", " ">>
                            \o IntToStr(TriggerMode[last.arg.name]) >>
        /\ last.arg.kind # "mode" => last.err = "TypeError" /\ last.tx = <<>>

\* C6: distinct trigger modes have distinct codes, so the trigger getter given
\* the code of a mode returns that mode.
C6_ModeCodesCollisionFree ==
    last.op = "trigger.get" /\ last.err = "none" =>
        /\ \A m1, m2 \in ModeNames : m1 # m2 => TriggerMode[m1] # TriggerMode[m2]
        /\ \A m \in ModeNames :
              ParseInt(last.rd[1].text) = [ok |-> TRUE, val |-> TriggerMode[m]]
                  => last.val = [kind |-> "mode", name |-> m]

\* C7: channel(i) for i in {0, 1, 2} gives, at every access, a channel bound
\* to internal index i + 1 and to the name C1, C2, C0 respectively; for any
\* other i it fails with IndexError.
C7_ChannelMappingStable ==
    /\ \A i \in DOMAIN chans :
          i \in 0..2 /\ chans[i].idx = i + 1 /\ chans[i].chan = DeclaredName(i)
    /\ last.op = "channel" =>
          IF last.arg.n \in 0..2
          THEN last.err = "none" /\ last.arg.n \in DOMAIN chans
          ELSE last.err = "IndexError"

\* channel 2 was accessed again after the counters had been read through it
C7_Witness ==
    /\ last.op = "channel"
    /\ last.arg.n = 2
    /\ DOMAIN chans = 0..2
    /\ chans[2] = [idx |-> 3, chan |-> <<"C", "0">>, count |-> 1]

\* C10: constructing a CC1 completes without error, with channel1, channel2
\* and channelc set, and every Channel ever constructed has an internal index
\* in 1..3.
C10_ConstructorChannelsValid ==
    /\ cc1.err = "none"
    /\ DOMAIN cc1.attrs = {"channel1", "channel2", "channelc"}
    /\ \A k \in 1..Len(cc1.built) : cc1.built[k] \in 1..3
    /\ \A i \in DOMAIN chans : chans[i].idx \in 1..3

====
